---- MODULE Spec2Model ----
(***************************************************************************)
(* A model of the Al Jazeera news scraper: the workflow of tasks.py        *)
(* (make_aljazeera_news_report), the collection loop of                    *)
(* NewsScraper.collect_articles with the site it talks to, the Article     *)
(* extractor's date parsing, and the report writer.                        *)
(*                                                                         *)
(* Python values are modelled as follows.  A text is a sequence of tokens  *)
(* (words and single blanks).  An optional text is a record                *)
(* [found, text]: found = FALSE is the element not being in the page.      *)
(* A datetime is a tuple <<year, month, day, tick>>, tick 0 being          *)
(* midnight; the absent datetime (None) is the empty tuple.                *)
(***************************************************************************)
EXTENDS Integers, Sequences, FiniteSets, TLC

\* ------------------------------------------------------------------ bounds

\* The most work items one run of the workflow is given.
MaxItems == 2

\* The most result nodes the site holds for one search.
MaxResults == 2

\* ------------------------------------------------------------- calendar

IsLeap(y) == (y % 4 = 0 /\ y % 100 # 0) \/ y % 400 = 0

DaysInMonth(y, m) ==
    IF m = 2 THEN (IF IsLeap(y) THEN 29 ELSE 28)
    ELSE IF m \in {4, 6, 9, 11} THEN 30 ELSE 31

Min(a, b) == IF a <= b THEN a ELSE b

\* datetime - DateOffset(months=n): the month moves back n months, the year
\* follows, the day is clamped to the new month's length, the time of day stays.
MinusMonths(dt, n) ==
    LET total == dt[1] * 12 + (dt[2] - 1) - n
        y     == total \div 12
        m     == (total % 12) + 1
    IN  <<y, m, Min(dt[3], DaysInMonth(y, m)), dt[4]>>

\* a < b on datetimes.
DateLess(a, b) ==
    \/ a[1] < b[1]
    \/ a[1] = b[1] /\ a[2] < b[2]
    \/ a[1] = b[1] /\ a[2] = b[2] /\ a[3] < b[3]
    \/ a[1] = b[1] /\ a[2] = b[2] /\ a[3] = b[3] /\ a[4] < b[4]

NoDate == <<>>

\* ---------------------------------------------------------- date parsing

\* The tokens strptime's %d, %b and %Y accept, with their values.
DayValue   == ("10" :> 10) @@ ("15" :> 15) @@ ("20" :> 20) @@ ("30" :> 30)
MonthValue == ("Jan" :> 1) @@ ("Feb" :> 2) @@ ("Mar" :> 3)
YearValue  == ("2024" :> 2024)

Blank == " "

RECURSIVE RemoveToken(_, _)
\* str.replace(tok, ""): every occurrence of the token goes.
RemoveToken(text, tok) ==
    IF text = <<>> THEN <<>>
    ELSE IF Head(text) = tok THEN RemoveToken(Tail(text), tok)
    ELSE <<Head(text)>> \o RemoveToken(Tail(text), tok)

RECURSIVE LStrip(_)
LStrip(text) ==
    IF text # <<>> /\ Head(text) = Blank THEN LStrip(Tail(text)) ELSE text

RECURSIVE RStrip(_)
RStrip(text) ==
    IF text # <<>> /\ text[Len(text)] = Blank
    THEN RStrip(SubSeq(text, 1, Len(text) - 1)) ELSE text

\* str.strip(): leading and trailing whitespace goes.
Strip(text) == RStrip(LStrip(text))

RECURSIVE SquashBlanks(_)
\* A run of blanks read as one: the format's blank matches \s+.
SquashBlanks(text) ==
    IF Len(text) < 2 THEN text
    ELSE IF text[1] = Blank /\ text[2] = Blank THEN SquashBlanks(Tail(text))
    ELSE <<Head(text)>> \o SquashBlanks(Tail(text))

\* Whether datetime.strptime(text, "%d %b %Y") returns (it raises ValueError
\* otherwise): day, blanks, abbreviated month, blanks, year and nothing else,
\* the day being one the month has.
StrptimeMatches(text) ==
    LET t == SquashBlanks(text)
    IN  /\ Len(t) = 5
        /\ t[1] \in DOMAIN DayValue
        /\ t[2] = Blank
        /\ t[3] \in DOMAIN MonthValue
        /\ t[4] = Blank
        /\ t[5] \in DOMAIN YearValue
        /\ DayValue[t[1]] <= DaysInMonth(YearValue[t[5]], MonthValue[t[3]])

\* datetime.strptime(text, "%d %b %Y") where it returns: midnight of the day.
Strptime(text) ==
    LET t == SquashBlanks(text)
    IN  <<YearValue[t[5]], MonthValue[t[3]], DayValue[t[1]], 0>>

\* date_text.replace("Last update", "").strip().rstrip()
CleanDateText(text) == RStrip(Strip(RemoveToken(text, "Last update")))

\* Article._parse_date: [raised, date].  The date element's text is read only
\* when the element is found; an empty text is falsy and gives None; any other
\* text goes to strptime, whose ValueError nothing catches.
ParseDate(el) ==
    IF ~el.found \/ el.text = <<>>
    THEN [raised |-> FALSE, date |-> NoDate]
    ELSE IF StrptimeMatches(CleanDateText(el.text))
         THEN [raised |-> FALSE, date |-> Strptime(CleanDateText(el.text))]
         ELSE [raised |-> TRUE, date |-> NoDate]

\* ----------------------------------------------------------- text search

\* A title or a description is a sequence of one-character strings.
UpperCase == <<"A", "B", "C", "D", "E", "F", "G", "H", "I", "J", "K", "L", "M", "N", "O", "P", "Q", "R", "S", "T", "U", "V", "W", "X", "Y", "Z">>
LowerCase == <<"a", "b", "c", "d", "e", "f", "g", "h", "i", "j", "k", "l", "m", "n", "o", "p", "q", "r", "s", "t", "u", "v", "w", "x", "y", "z">>
Digits    == {"0", "1", "2", "3", "4", "5", "6", "7", "8", "9"}

\* The characters \w matches, and the ones \s matches.
WordChars  == {UpperCase[i] : i \in 1..26} \cup {LowerCase[i] : i \in 1..26}
                  \cup Digits \cup {"_"}
SpaceChars == {Blank}

LowerChar(c) ==
    IF \E i \in 1..26 : UpperCase[i] = c
    THEN LowerCase[CHOOSE i \in 1..26 : UpperCase[i] = c]
    ELSE c

\* str.lower()
LowerText(t) == [i \in 1..Len(t) |-> LowerChar(t[i])]

RECURSIVE CountFrom(_, _, _)
\* str.count(sub) from position i on: the occurrences found left to right,
\* each search resuming after the occurrence before it; the empty string is
\* found between all characters and at both ends.
CountFrom(t, sub, i) ==
    IF sub = <<>> THEN Len(t) + 1
    ELSE IF i + Len(sub) - 1 > Len(t) THEN 0
    ELSE IF SubSeq(t, i, i + Len(sub) - 1) = sub
         THEN 1 + CountFrom(t, sub, i + Len(sub))
         ELSE CountFrom(t, sub, i + 1)

\* text.lower().count(search_term.lower())
CountOccurrences(t, term) == CountFrom(LowerText(t), LowerText(term), 1)

\* Article._count_matches: a title or description that is None or empty adds
\* nothing.
CountMatches(title, description, term) ==
    (IF title.found /\ title.text # <<>> THEN CountOccurrences(title.text, term) ELSE 0)
    + (IF description.found /\ description.text # <<>>
       THEN CountOccurrences(description.text, term) ELSE 0)

\* re.search(r"\$\s?[\d,]+\.\d+", t): a dollar sign, at most one blank, digits
\* and commas, a point, a digit.
HasCurrencyAmount(t) ==
    \E i \in 1..Len(t) :
        /\ t[i] = "$"
        /\ \E j \in {i + 1, i + 2} :
             /\ j = i + 2 => (i + 1 <= Len(t) /\ t[i + 1] \in SpaceChars)
             /\ \E k \in j..Len(t) :
                  /\ \A m \in j..k : t[m] \in Digits \cup {","}
                  /\ k + 2 <= Len(t)
                  /\ t[k + 1] = "."
                  /\ t[k + 2] \in Digits

\* The flag re.IGNORECASE left out: the word is looked for as it is spelt.
HasNumberThen_CaseSensitive(t, word) ==
    \E i \in 1..Len(t) :
        /\ t[i] \in Digits
        /\ i = 1 \/ t[i - 1] \notin WordChars
        /\ \E k \in i..Len(t) :
             /\ \A m \in i..k : t[m] \in Digits
             /\ \E w \in (k + 1)..Len(t) :
                  /\ \A m \in (k + 1)..(w - 1) : t[m] \in SpaceChars
                  /\ w + Len(word) - 1 <= Len(t)
                  /\ SubSeq(t, w, w + Len(word) - 1) = word
                  /\ w + Len(word) > Len(t) \/ t[w + Len(word)] \notin WordChars

\* re.search(r"\b\d+\s*<word>\b", t, re.IGNORECASE): digits that start a
\* word, blanks if any, then the word in any case, ending a word.
HasNumberThen(t, word) ==
    \E i \in 1..Len(t) :
        /\ t[i] \in Digits
        /\ i = 1 \/ t[i - 1] \notin WordChars
        /\ \E k \in i..Len(t) :
             /\ \A m \in i..k : t[m] \in Digits
             /\ \E w \in (k + 1)..Len(t) :
                  /\ \A m \in (k + 1)..(w - 1) : t[m] \in SpaceChars
                  /\ w + Len(word) - 1 <= Len(t)
                  /\ LowerText(SubSeq(t, w, w + Len(word) - 1)) = LowerText(word)
                  /\ w + Len(word) > Len(t) \/ t[w + Len(word)] \notin WordChars

\* One text against the three patterns.
MentionsMoney(t) ==
    \/ HasCurrencyAmount(t)
    \/ HasNumberThen(t, <<"d", "o", "l", "l", "a", "r", "s">>)
    \/ HasNumberThen(t, <<"U", "S", "D">>)

\* Article._find_money_mentions: a title or description that is None or empty
\* is not searched.
FindMoneyMentions(title, description) ==
    \/ title.found /\ title.text # <<>> /\ MentionsMoney(title.text)
    \/ description.found /\ description.text # <<>> /\ MentionsMoney(description.text)

\* ------------------------------------------------------------ the site

\* An element's text, and the text of an element that is not there.
Text(t)  == [found |-> TRUE, text |-> t]
NoText   == [found |-> FALSE, text |-> <<>>]

\* What the page holds for one result node: the texts of its title, date and
\* description elements and its image ("none": no img element, "marked": a src
\* that embeds ?q=tbn:<id>&, "unmarked": a src without that marker).
Node(title, date, description, img) ==
    [title |-> title, date |-> date, description |-> description, img |-> img]

RecentNode ==
    Node(Text(<<"O", "i", "l", " ", "b", "o", "i", "l", "s">>),
         Text(<<"Last update", Blank, "10", Blank, "Mar", Blank, "2024">>),
         Text(<<"2", "0", " ", "u", "s", "d">>), "marked")
LimitDayNode ==
    Node(Text(<<"G", "a", "s">>), Text(<<"15", Blank, "Jan", Blank, "2024">>), NoText, "none")
UndatedNode ==
    Node(NoText, NoText, Text(<<"$", "1", ".", "5", " ", "o", "i", "l">>), "none")
RelativeNode ==
    Node(Text(<<"O", "i", "l">>), Text(<<"3", Blank, "hours", Blank, "ago">>), NoText, "marked")
UnmarkedNode ==
    Node(Text(<<"O", "i", "l">>), Text(<<"10", Blank, "Mar", Blank, "2024">>), NoText, "unmarked")

NodeKinds == {RecentNode, LimitDayNode, UndatedNode, RelativeNode, UnmarkedNode}

\* The search phrase of the work items.
SearchPhrase == <<"o", "i", "l">>

RECURSIVE SeqsUpTo(_, _)
\* The sequences over S of length at most n.
SeqsUpTo(S, n) ==
    IF n = 0 THEN {<<>>}
    ELSE LET shorter == SeqsUpTo(S, n - 1)
         IN  shorter \cup {Append(q, x) : q \in {r \in shorter : Len(r) = n - 1}, x \in S}

\* The result sequences a search can give, and the sizes of a page of them.
ResultSeqs == SeqsUpTo(NodeKinds, MaxResults)
PageSizes  == {1, 2}

\* The days a run can start on, the ticks of its clock (0: exactly midnight),
\* and the values of number_of_months in a work item.
Todays == {<<2024, 3, 15>>, <<2024, 3, 31>>}
Ticks  == {0, 1}
Months == {1, 2}

\* ------------------------------------------------------------- Article

\* Article._parse_image_url: [raised, file].  No img element gives
\* (None, None); a src without the marker makes split(...)[1] raise IndexError.
ParseImageUrl(img) ==
    IF img = "none" THEN [raised |-> FALSE, url |-> FALSE, file |-> "None"]
    ELSE IF img = "marked" THEN [raised |-> FALSE, url |-> TRUE, file |-> "id.jpeg"]
    ELSE [raised |-> TRUE, url |-> FALSE, file |-> "None"]

\* What Article.__init__ makes of each kind of node: the parsed date and
\* image, and the counts made from the title and the description.
Parsed ==
    [n \in NodeKinds |->
        [date      |-> ParseDate(n.date),
         image     |-> ParseImageUrl(n.img),
         matches   |-> CountMatches(n.title, n.description, SearchPhrase),
         has_money |-> FindMoneyMentions(n.title, n.description)]]

\* Article.__init__ on the node at position pos of search number inv: the
\* exception it raises ("none" when it returns) and the article it builds.
NewArticle(inv, pos, node) ==
    LET d == Parsed[node].date
        i == Parsed[node].image
    IN  [raised |-> IF d.raised THEN "ValueError"
                    ELSE IF i.raised THEN "IndexError" ELSE "none",
         art    |-> [node |-> <<inv, pos>>,
                     title |-> node.title,
                     date |-> d.date,
                     description |-> node.description,
                     image_url |-> i.url,
                     image_file_name |-> i.file,
                     matches_count |-> Parsed[node].matches,
                     has_money |-> Parsed[node].has_money]]

\* ------------------------------------------------------- element lookup

\* The locator types _get_web_element maps to a By, and the wait conditions
\* it accepts (None among them).
LocatorTypes        == {"id", "xpath", "name", "class", "css"}
ValidWaitConditions == {"None", "presence", "clickable"}

\* What a lookup gives back: an exception, None, one element or a list.
Raises(type)  == [raised |-> type,   none |-> FALSE, list |-> FALSE, items |-> <<>>, queries |-> 0]
NoElement     == [raised |-> "none", none |-> TRUE,  list |-> FALSE, items |-> <<>>, queries |-> 1]
OneElement    == [raised |-> "none", none |-> FALSE, list |-> FALSE, items |-> <<1>>, queries |-> 1]
Elements(n)   == [raised |-> "none", none |-> FALSE, list |-> TRUE,
                  items |-> [i \in 1..n |-> i], queries |-> 1]

\* No test for an empty list: find_elements' result is returned as it is.
GetWebElement_ReturnsEmptyList(locator_type, wait_condition, multiple, explicit_wait, n, intime) ==
    IF locator_type \notin LocatorTypes THEN Raises("ValueError")
    ELSE IF wait_condition \notin ValidWaitConditions THEN Raises("ValueError")
    ELSE IF explicit_wait > 0
    THEN IF n > 0 /\ intime
         THEN IF multiple /\ wait_condition # "clickable" THEN Elements(n) ELSE OneElement
         ELSE NoElement
    ELSE IF multiple
    THEN Elements(n)
    ELSE IF n = 0 THEN NoElement ELSE OneElement

\* NewsScraper._get_web_element on a page holding n elements that match the
\* locator; intime says whether a bounded wait sees them before it times out.
\* The two argument checks come before the try block and before any query.
\* With a wait, WebDriverWait.until gives the condition's value or raises
\* TimeoutException; without one, find_elements' empty list is turned into
\* NoSuchElementException and find_element raises it itself; both exceptions
\* are caught and None returned.
GetWebElement(locator_type, wait_condition, multiple, explicit_wait, n, intime) ==
    IF locator_type \notin LocatorTypes THEN Raises("ValueError")
    ELSE IF wait_condition \notin ValidWaitConditions THEN Raises("ValueError")
    ELSE IF explicit_wait > 0
    THEN IF n > 0 /\ intime
         THEN IF multiple /\ wait_condition # "clickable" THEN Elements(n) ELSE OneElement
         ELSE NoElement
    ELSE IF multiple
    THEN IF n = 0 THEN NoElement ELSE Elements(n)
    ELSE IF n = 0 THEN NoElement ELSE OneElement

\* _get_web_element("//article", multiple=True, parent=...) with no wait, on a
\* page holding n result nodes: None when there are none, else the list of them.
FindAll(n) ==
    LET found == GetWebElement("xpath", "None", TRUE, 0, n, TRUE)
    IN  [none |-> found.none, items |-> found.items]

\* The session started before the browser's name is looked at.
SetWebdriver_StartsFirst(browser, d, started) ==
    IF ~started
    THEN [raised |-> "Exception", driver |-> d, launches |-> 1]
    ELSE IF LowerText(browser) = <<"c", "h", "r", "o", "m", "e">>
    THEN [raised |-> "none", driver |-> "running", launches |-> 1]
    ELSE [raised |-> "NotImplementedError", driver |-> "running", launches |-> 1]

\* CustomSelenium.set_webdriver(browser) with the session field at d; started
\* says whether the browser comes up when it is launched.
SetWebdriver(browser, d, started) ==
    IF LowerText(browser) = <<"c", "h", "r", "o", "m", "e">>
    THEN IF started
         THEN [raised |-> "none", driver |-> "running", launches |-> 1]
         ELSE [raised |-> "Exception", driver |-> d, launches |-> 1]
    ELSE [raised |-> "NotImplementedError", driver |-> d, launches |-> 0]

\* NewsScraper.sort_by(by) on a page where the date option is there or not:
\* the key is checked, then the option looked up and clicked.
SortByCall(by, option) ==
    IF by \notin {"date", "relevance"}
    THEN [raised |-> "ValueError", lookups |-> 0, clicks |-> 0]
    ELSE IF option
    THEN [raised |-> "none", lookups |-> 1, clicks |-> 1]
    ELSE [raised |-> "AttributeError", lookups |-> 1, clicks |-> 0]

\* Python's truth value of a lookup result: None and [] are falsy.
Truthy(l) == ~l.none /\ l.items # <<>>

\* The slice forgotten: the list read again is taken whole.
SliceFrom_KeepsAll(items, n) == items

\* list[n:]
SliceFrom(items, n) ==
    IF n >= Len(items) THEN <<>> ELSE SubSeq(items, n + 1, Len(items))

\* The test for a date left out: an article with no date counts as too old.
IsBeforeLimit_AbsentIsOld(date, limit) == date = NoDate \/ DateLess(date, limit)

\* The comparison turned round: limit_date < current_article.date.
IsBeforeLimit_Reversed(date, limit) == date # NoDate /\ DateLess(limit, date)

\* current_article.date and current_article.date < limit_date
IsBeforeLimit(date, limit) == date # NoDate /\ DateLess(date, limit)

\* ------------------------------------------------------------- the state

VARIABLES
    wf,         \* where make_aljazeera_news_report is: "prepare", "home", "items",
                \* "collect", "report", "archive", "finally", "end"
    driver,     \* the browser session: "none", "running", "quit"
    exc,        \* the exception propagating out of the try body, "none" if none
    exc_at,     \* the step that raised it
    today,      \* the day of the run
    item_no,    \* the work items taken so far
    articles,   \* NewsScraper.articles
    report,     \* the report files: [written, csv, xlsx]
    archived,   \* whether the zip archive was written
    cpc,        \* where collect_articles is: "idle", "search", "sort", "ad", "read",
                \* "loop", "loadmore", "reread", "done", "raised"
    limit_date, \* collect_articles' limit_date
    site,       \* the result nodes the site holds for the current search, in order
    page,       \* how many of them one page shows
    visible,    \* how many of them are in the page now
    pending,    \* a clicked load-more the site has not answered yet
    elems,      \* list_of_articles_elements: [none, items], items being positions in site
    entry_len,  \* len(articles) when the current collect_articles was entered
    processed,  \* the positions the current collect_articles built an Article from
    listed,     \* whether the current collect_articles has read the result list
    missing,    \* the required element the current collect_articles did not find,
                \* "none" if it found them all
    raced,      \* whether a re-read of the current collect_articles came before
                \* the page its load-more asked for
    probe       \* the last direct call of a library function: [op, in, out]

wfVars   == <<wf, driver, exc, exc_at, today, item_no, report, archived>>
siteVars == <<site, page, visible, pending>>
loopVars == <<cpc, limit_date, elems, entry_len, processed, listed, missing, raced>>
vars     == <<wf, driver, exc, exc_at, today, item_no, articles, report, archived,
              cpc, limit_date, site, page, visible, pending, elems, entry_len,
              processed, listed, missing, raced, probe>>

NoList   == [none |-> TRUE, items |-> <<>>]
NoReport == [written |-> FALSE, csv |-> <<>>, xlsx |-> <<>>]
NoCall   == [op |-> "none", in |-> <<>>, out |-> <<>>]

\* NewsScraper.__init__ and CustomSelenium.__init__: no session, no articles.
Init ==
    /\ wf = "prepare"
    /\ driver = "none"
    /\ exc = "none"
    /\ exc_at = "none"
    /\ today \in Todays
    /\ item_no = 0
    /\ articles = <<>>
    /\ report = NoReport
    /\ archived = FALSE
    /\ cpc = "idle"
    /\ limit_date = NoDate
    /\ site = <<>>
    /\ page = 1
    /\ visible = 0
    /\ pending = FALSE
    /\ elems = NoList
    /\ entry_len = 0
    /\ processed = <<>>
    /\ listed = FALSE
    /\ missing = "none"
    /\ raced = FALSE
    /\ probe = NoCall

\* An exception leaves the try body: control goes to the finally clause.
Propagate(type, at) ==
    /\ exc' = type
    /\ exc_at' = at
    /\ wf' = "finally"

\* ------------------------------------------------------------ the workflow

\* set_output_dir and prepare_environment: the output folder is made, the
\* session started and the window sized; each of the three can fail.
PrepareEnvironment ==
    /\ wf = "prepare"
    /\ \E r \in {"ok", "mkdir", "start", "page_size"} :
         /\ driver' = IF r \in {"ok", "page_size"} THEN "running" ELSE "none"
         /\ IF r = "ok"
            THEN wf' = "home" /\ UNCHANGED <<exc, exc_at>>
            ELSE Propagate("Exception", r)
    /\ UNCHANGED <<today, item_no, articles, report, archived>>
    /\ UNCHANGED siteVars
    /\ UNCHANGED loopVars
    /\ UNCHANGED probe

\* access_home_page: open_url, then accept_cookies clicks the consent button
\* when it is found.
AccessHomePage ==
    /\ wf = "home"
    /\ \E r \in {"ok", "open_url", "cookie_click"} :
         IF r = "ok"
         THEN wf' = "items" /\ UNCHANGED <<exc, exc_at>>
         ELSE Propagate("Exception", r)
    /\ UNCHANGED <<driver, today, item_no, articles, report, archived>>
    /\ UNCHANGED siteVars
    /\ UNCHANGED loopVars
    /\ UNCHANGED probe

\* for item in workitems.inputs: the next item's collect_articles is entered,
\* which computes limit_date from the clock and the item's number_of_months.
CollectArticles ==
    /\ wf = "items"
    /\ item_no < MaxItems
    /\ \E tick \in Ticks, months \in Months :
         limit_date' = MinusMonths(<<today[1], today[2], today[3], tick>>, months)
    /\ wf' = "collect"
    /\ cpc' = "search"
    /\ item_no' = item_no + 1
    /\ entry_len' = Len(articles)
    /\ processed' = <<>>
    /\ listed' = FALSE
    /\ missing' = "none"
    /\ raced' = FALSE
    /\ elems' = NoList
    /\ site' = <<>>
    /\ visible' = 0
    /\ pending' = FALSE
    /\ UNCHANGED <<driver, exc, exc_at, today, articles, report, archived, page>>
    /\ UNCHANGED probe

\* The work items are exhausted: the loop over them ends.
ItemsDone ==
    /\ wf = "items"
    /\ wf' = "report"
    /\ UNCHANGED <<driver, exc, exc_at, today, item_no, articles, report, archived>>
    /\ UNCHANGED siteVars
    /\ UNCHANGED loopVars
    /\ UNCHANGED probe

\* One row of report_df: the columns create_report selects, in their order.
Row(a) ==
    <<a.title, a.date, a.description, a.image_file_name, a.matches_count, a.has_money>>

\* create_report: the DataFrame of the articles, its columns selected, written
\* as csv and as xlsx.  The DataFrame of no articles has no columns, and
\* selecting the columns raises KeyError.
CreateReport ==
    /\ wf = "report"
    /\ IF articles = <<>>
       THEN Propagate("KeyError", "create_report") /\ UNCHANGED report
       ELSE \E ok \in BOOLEAN :
              IF ok
              THEN LET rows == [i \in 1..Len(articles) |-> Row(articles[i])]
                   IN  /\ report' = [written |-> TRUE, csv |-> rows, xlsx |-> rows]
                       /\ wf' = "archive"
                       /\ UNCHANGED <<exc, exc_at>>
              ELSE Propagate("OSError", "create_report") /\ UNCHANGED report
    /\ UNCHANGED <<driver, today, item_no, articles, archived>>
    /\ UNCHANGED siteVars
    /\ UNCHANGED loopVars
    /\ UNCHANGED probe

\* archive_collection: make_archive of the output folder.
ArchiveCollection ==
    /\ wf = "archive"
    /\ \E ok \in BOOLEAN :
         IF ok
         THEN archived' = TRUE /\ wf' = "finally" /\ UNCHANGED <<exc, exc_at>>
         ELSE Propagate("OSError", "archive_collection") /\ UNCHANGED archived
    /\ UNCHANGED <<driver, today, item_no, articles, report>>
    /\ UNCHANGED siteVars
    /\ UNCHANGED loopVars
    /\ UNCHANGED probe

\* CustomSelenium.driver_quit on a session in state d: [driver, raised].  A
\* session that is there is quit; with none there is nothing to do.
QuitOutcome(d) ==
    [driver |-> IF d = "running" THEN "quit" ELSE d, raised |-> FALSE]

\* The quit at the end of the try body instead of in a finally clause: an
\* exception on its way out skips it.
DriverQuit_OnlyOnSuccess ==
    /\ wf = "finally"
    /\ driver' = IF exc = "none" THEN QuitOutcome(driver).driver ELSE driver
    /\ wf' = "end"
    /\ UNCHANGED <<exc, exc_at, today, item_no, articles, report, archived>>
    /\ UNCHANGED siteVars
    /\ UNCHANGED loopVars
    /\ UNCHANGED probe

\* finally: driver_quit, whatever the try body did.
DriverQuit ==
    /\ wf = "finally"
    /\ LET out == QuitOutcome(driver)
       IN  /\ driver' = out.driver
           /\ exc' = IF out.raised THEN "AttributeError" ELSE exc
           /\ exc_at' = IF out.raised THEN "driver_quit" ELSE exc_at
    /\ wf' = "end"
    /\ UNCHANGED <<today, item_no, articles, report, archived>>
    /\ UNCHANGED siteVars
    /\ UNCHANGED loopVars
    /\ UNCHANGED probe

\* ------------------------------------------------------- collect_articles

\* An exception leaves collect_articles, and with it the try body.
RaiseInCollect(type, at) ==
    /\ Propagate(type, at)
    /\ cpc' = "raised"

\* perform_search: the search trigger is looked up and clicked, the search
\* input looked up and typed into.  A lookup that finds nothing returns None,
\* and the call on None raises AttributeError.  The submitted search makes the
\* site show the first page of its results.
PerformSearch ==
    /\ wf = "collect" /\ cpc = "search"
    /\ \E trigger \in BOOLEAN, input \in BOOLEAN :
         IF ~trigger
         THEN /\ RaiseInCollect("AttributeError", "search_trigger")
              /\ missing' = "search_trigger"
              /\ UNCHANGED siteVars
         ELSE IF ~input
         THEN /\ RaiseInCollect("AttributeError", "search_input")
              /\ missing' = "search_input"
              /\ UNCHANGED siteVars
         ELSE /\ \E results \in ResultSeqs, size \in PageSizes :
                   /\ site' = results
                   /\ page' = size
                   /\ visible' = Min(size, Len(results))
              /\ pending' = FALSE
              /\ cpc' = "sort"
              /\ UNCHANGED <<wf, exc, exc_at, missing>>
    /\ UNCHANGED <<driver, today, item_no, articles, report, archived>>
    /\ UNCHANGED <<limit_date, elems, entry_len, processed, listed, raced>>
    /\ UNCHANGED probe

\* The option clicked only if it was found: a missing option is passed over.
SortBy_SkipsMissingOption ==
    /\ wf = "collect" /\ cpc = "sort"
    /\ \E option \in BOOLEAN :
         missing' = IF option THEN missing ELSE "sort_option"
    /\ cpc' = "ad"
    /\ UNCHANGED wfVars
    /\ UNCHANGED articles
    /\ UNCHANGED siteVars
    /\ UNCHANGED <<limit_date, elems, entry_len, processed, listed, raced>>
    /\ UNCHANGED probe

\* sort_by("date"): the key is one of the two accepted; the option is looked
\* up and clicked, the call on None raising AttributeError.
SortBy ==
    /\ wf = "collect" /\ cpc = "sort"
    /\ \E option \in BOOLEAN :
         IF option
         THEN cpc' = "ad" /\ UNCHANGED <<wf, exc, exc_at, missing>>
         ELSE RaiseInCollect("AttributeError", "sort_option") /\ missing' = "sort_option"
    /\ UNCHANGED <<driver, today, item_no, articles, report, archived>>
    /\ UNCHANGED siteVars
    /\ UNCHANGED <<limit_date, elems, entry_len, processed, listed, raced>>
    /\ UNCHANGED probe

\* close_ad_in_search_results: the close button is looked up and clicked.  An
\* intercepted click is caught; the lookup itself never raises, it returns
\* None for an absent button, and the call on None raises AttributeError,
\* which the except clause does not name.
CloseAdInSearchResults ==
    /\ wf = "collect" /\ cpc = "ad"
    /\ \E ad \in {"absent", "clicked", "intercepted"} :
         IF ad = "absent"
         THEN RaiseInCollect("AttributeError", "ad_close")
         ELSE cpc' = "read" /\ UNCHANGED <<wf, exc, exc_at>>
    /\ UNCHANGED <<driver, today, item_no, articles, report, archived>>
    /\ UNCHANGED siteVars
    /\ UNCHANGED <<limit_date, elems, entry_len, processed, listed, missing, raced>>
    /\ UNCHANGED probe

\* The first read of the result list.
ReadResults ==
    /\ wf = "collect" /\ cpc = "read"
    /\ elems' = FindAll(visible)
    /\ listed' = TRUE
    /\ cpc' = "loop"
    /\ UNCHANGED wfVars
    /\ UNCHANGED articles
    /\ UNCHANGED siteVars
    /\ UNCHANGED <<limit_date, entry_len, processed, missing, raced>>
    /\ UNCHANGED probe

\* One turn of the while loop up to the test for the end of the page: the
\* loop ends on a falsy list; else the first element is popped and an Article
\* built from it (which can raise); an article before the limit ends the
\* loop; any other is appended and its image, if it has one, downloaded.
ScanNext ==
    /\ wf = "collect" /\ cpc = "loop"
    /\ IF ~Truthy(elems)
       THEN /\ cpc' = "done"
            /\ UNCHANGED <<wf, exc, exc_at, articles, elems, processed>>
       ELSE LET pos  == Head(elems.items)
                rest == Tail(elems.items)
                new  == NewArticle(item_no, pos, site[pos])
            IN  /\ elems' = [none |-> FALSE, items |-> rest]
                /\ processed' = Append(processed, pos)
                /\ IF new.raised # "none"
                   THEN RaiseInCollect(new.raised, "article") /\ UNCHANGED articles
                   ELSE IF IsBeforeLimit(new.art.date, limit_date)
                   THEN cpc' = "done" /\ UNCHANGED <<wf, exc, exc_at, articles>>
                   ELSE /\ articles' = Append(articles, new.art)
                        /\ cpc' = IF rest = <<>> THEN "loadmore" ELSE "loop"
                        /\ UNCHANGED <<wf, exc, exc_at>>
    /\ UNCHANGED <<driver, today, item_no, report, archived>>
    /\ UNCHANGED siteVars
    /\ UNCHANGED <<limit_date, entry_len, listed, missing, raced>>
    /\ UNCHANGED probe

\* The click tried again for as long as the button is found.
LoadMoreArticles_Retries ==
    /\ wf = "collect" /\ cpc = "loadmore"
    /\ \E button \in BOOLEAN :
         /\ visible < Len(site) => button
         /\ IF button
            THEN pending' = (visible < Len(site)) /\ cpc' = "loadmore"
            ELSE cpc' = "done" /\ UNCHANGED pending
    /\ UNCHANGED wfVars
    /\ UNCHANGED articles
    /\ UNCHANGED <<site, page, visible>>
    /\ UNCHANGED <<limit_date, elems, entry_len, processed, listed, missing, raced>>
    /\ UNCHANGED probe

\* load_more_articles: no button, no more articles, and the loop ends; else
\* the button is clicked, which asks the site for its next page, and the
\* bounded wait for the button follows.  The site shows the button as long as
\* it holds results it has not shown.
LoadMoreArticles ==
    /\ wf = "collect" /\ cpc = "loadmore"
    /\ \E button \in BOOLEAN :
         /\ visible < Len(site) => button
         /\ IF button
            THEN pending' = (visible < Len(site)) /\ cpc' = "reread"
            ELSE cpc' = "done" /\ UNCHANGED pending
    /\ UNCHANGED wfVars
    /\ UNCHANGED articles
    /\ UNCHANGED <<site, page, visible>>
    /\ UNCHANGED <<limit_date, elems, entry_len, processed, listed, missing, raced>>
    /\ UNCHANGED probe

\* The site answers a load-more: the next page is appended to the list.
SiteShowsNextPage ==
    /\ pending
    /\ visible' = Min(visible + page, Len(site))
    /\ pending' = FALSE
    /\ UNCHANGED wfVars
    /\ UNCHANGED articles
    /\ UNCHANGED <<site, page>>
    /\ UNCHANGED loopVars
    /\ UNCHANGED probe

\* The list is read again and the entries already collected are cut off.  The
\* wait before it ends with the button present or with a timeout, so the
\* read can come before the site's answer.  Slicing None raises TypeError.
ReRead ==
    /\ wf = "collect" /\ cpc = "reread"
    /\ LET again == FindAll(visible)
       IN  IF again.none
           THEN RaiseInCollect("TypeError", "reread") /\ UNCHANGED <<elems, raced>>
           ELSE /\ elems' = [none |-> FALSE, items |-> SliceFrom(again.items, Len(articles))]
                /\ raced' = (raced \/ pending)
                /\ cpc' = "loop"
                /\ UNCHANGED <<wf, exc, exc_at>>
    /\ UNCHANGED <<driver, today, item_no, articles, report, archived>>
    /\ UNCHANGED siteVars
    /\ UNCHANGED <<limit_date, entry_len, processed, listed, missing>>
    /\ UNCHANGED probe

\* collect_articles returns to the loop over the work items: its locals are
\* gone, and the result list it leaves in the page is not looked at again (the
\* next search replaces it).
CollectReturn ==
    /\ wf = "collect" /\ cpc = "done"
    /\ wf' = "items"
    /\ cpc' = "idle"
    /\ limit_date' = NoDate
    /\ elems' = NoList
    /\ entry_len' = Len(articles)
    /\ processed' = <<>>
    /\ listed' = FALSE
    /\ missing' = "none"
    /\ raced' = FALSE
    /\ site' = <<>>
    /\ page' = 1
    /\ visible' = 0
    /\ pending' = FALSE
    /\ UNCHANGED <<driver, exc, exc_at, today, item_no, articles, report, archived>>
    /\ UNCHANGED probe

\* ------------------------------------------------- calls from outside

\* The library's functions are public: besides the workflow, a caller can
\* use them directly, with arguments the workflow never passes.  wf is
\* "direct" in such a run.

\* The arguments tried.
BrowserNames ==
    { <<"C", "h", "r", "o", "m", "e">>,
      <<"c", "h", "r", "o", "m", "e">>,
      <<"C", "H", "R", "O", "M", "E">>,
      <<"F", "i", "r", "e", "f", "o", "x">>,
      <<"C", "h", "r", "o", "m", "i", "u", "m">>,
      <<>> }
SortKeys          == {"date", "relevance", "Date", "title", ""}
LocatorTypeArgs   == LocatorTypes \cup {"tag", "XPATH"}
WaitConditionArgs == ValidWaitConditions \cup {"visible"}
WaitArgs          == {0, 10}
MatchingElements  == 0..2

\* Everything but the session and the record of the call.
directUnchanged ==
    <<wf, exc, exc_at, today, item_no, articles, report, archived,
      cpc, limit_date, site, page, visible, pending, elems, entry_len,
      processed, listed, missing, raced>>

\* scraper.set_webdriver(browser)
CallSetWebdriver ==
    /\ wf = "direct"
    /\ \E browser \in BrowserNames, started \in BOOLEAN :
         LET out == SetWebdriver(browser, driver, started)
         IN  /\ probe' = [op |-> "set_webdriver",
                          in |-> [browser |-> browser, driver |-> driver],
                          out |-> out]
             /\ driver' = out.driver
    /\ UNCHANGED directUnchanged

\* scraper.sort_by(by)
CallSortBy ==
    /\ wf = "direct"
    /\ \E by \in SortKeys, option \in BOOLEAN :
         probe' = [op |-> "sort_by",
                   in |-> [by |-> by, option |-> option],
                   out |-> SortByCall(by, option)]
    /\ UNCHANGED driver
    /\ UNCHANGED directUnchanged

\* scraper._get_web_element(locator, locator_type, parent, multiple,
\* explicit_wait, wait_condition)
CallGetWebElement ==
    /\ wf = "direct"
    /\ \E locator_type \in LocatorTypeArgs, wait_condition \in WaitConditionArgs,
          multiple \in BOOLEAN, explicit_wait \in WaitArgs,
          n \in MatchingElements, intime \in BOOLEAN :
         probe' = [op |-> "get_web_element",
                   in |-> [locator_type |-> locator_type, wait_condition |-> wait_condition,
                           multiple |-> multiple, explicit_wait |-> explicit_wait,
                           n |-> n, intime |-> intime],
                   out |-> GetWebElement(locator_type, wait_condition, multiple,
                                         explicit_wait, n, intime)]
    /\ UNCHANGED driver
    /\ UNCHANGED directUnchanged

\* The texts and phrases tried.
OilTitle ==
    <<"O", "i", "l", " ", "p", "r", "i", "c", "e", "s", " ", "a", "n", "d",
      " ", "o", "i", "l", " ", "f", "u", "t", "u", "r", "e", "s">>
BananaTitle ==
    <<"B", "a", "n", "a", "n", "a", " ", "e", "x", "p", "o", "r", "t", "s">>
OilDescription ==
    <<"O", "I", "L", " ", "a", "n", "d", " ", "g", "a", "s">>
LossesText ==
    <<"L", "o", "s", "s", "e", "s", " ", "o", "f", " ", "$", "1", ",", "2",
      "0", "0", ".", "5", "0", " ", "r", "e", "p", "o", "r", "t", "e", "d">>
CostText ==
    <<"C", "o", "s", "t", " ", "w", "a", "s", " ", "2", "0", " ", "d", "o",
      "l", "l", "a", "r", "s">>
PaidText ==
    <<"P", "a", "i", "d", " ", "1", "5", " ", "U", "S", "D">>
MarketText ==
    <<"M", "a", "r", "k", "e", "t", " ", "f", "e", "l", "l", " ", "s", "h",
      "a", "r", "p", "l", "y">>
LowerUsdText ==
    <<"p", "a", "i", "d", " ", "1", "5", " ", "u", "s", "d">>
UpperDollarsText ==
    <<"2", "0", " ", "D", "O", "L", "L", "A", "R", "S">>
UsdFirstText ==
    <<"U", "S", "D", " ", "1", "5">>
NoNumberText ==
    <<"d", "o", "l", "l", "a", "r", "s">>

CountTitles       == {Text(OilTitle), Text(BananaTitle), Text(<<"a", "a", "a">>), NoText}
CountDescriptions == {NoText, Text(OilDescription), Text(<<"a", "a">>)}
Phrases ==
    {<<"o", "i", "l">>, <<"O", "i", "L">>, <<"a", "n", "a">>, <<"a", "a">>, <<>>}
MoneyTexts ==
    {LossesText, CostText, PaidText, MarketText, LowerUsdText, UpperDollarsText,
     UsdFirstText, NoNumberText}
MoneyFields == {Text(t) : t \in MoneyTexts} \cup {NoText}

\* Article(element, search_term, output_dir).matches_count, for an element
\* with this title and description
CallCountMatches ==
    /\ wf = "direct"
    /\ \E title \in CountTitles, description \in CountDescriptions, term \in Phrases :
         probe' = [op |-> "count_matches",
                   in |-> [title |-> title, description |-> description, term |-> term],
                   out |-> [count |-> CountMatches(title, description, term)]]
    /\ UNCHANGED driver
    /\ UNCHANGED directUnchanged

\* Article(element, search_term, output_dir).has_money
CallFindMoneyMentions ==
    /\ wf = "direct"
    /\ \E title \in MoneyFields, description \in MoneyFields :
         probe' = [op |-> "find_money_mentions",
                   in |-> [title |-> title, description |-> description],
                   out |-> [has_money |-> FindMoneyMentions(title, description)]]
    /\ UNCHANGED driver
    /\ UNCHANGED directUnchanged

DirectCall ==
    \/ CallSetWebdriver
    \/ CallSortBy
    \/ CallGetWebElement
    \/ CallCountMatches
    \/ CallFindMoneyMentions

\* ------------------------------------------------------ the specification

\* A step of the workflow, which is single-threaded.
WorkflowStep ==
    \/ PrepareEnvironment
    \/ AccessHomePage
    \/ CollectArticles
    \/ ItemsDone
    \/ CreateReport
    \/ ArchiveCollection
    \/ DriverQuit
    \/ PerformSearch
    \/ SortBy
    \/ CloseAdInSearchResults
    \/ ReadResults
    \/ ScanNext
    \/ LoadMoreArticles
    \/ ReRead
    \/ CollectReturn

Next == WorkflowStep \/ SiteShowsNextPage

Spec == Init /\ [][Next]_vars

\* The workflow is one sequential Python call: while a next statement exists
\* the interpreter runs it.  Nothing is assumed of the site.
FairSpec == Spec /\ WF_vars(WorkflowStep)

\* A run of direct calls on a scraper just constructed.
DirectInit ==
    /\ wf = "direct"
    /\ driver = "none"
    /\ exc = "none"
    /\ exc_at = "none"
    /\ today \in Todays
    /\ item_no = 0
    /\ articles = <<>>
    /\ report = NoReport
    /\ archived = FALSE
    /\ cpc = "idle"
    /\ limit_date = NoDate
    /\ site = <<>>
    /\ page = 1
    /\ visible = 0
    /\ pending = FALSE
    /\ elems = NoList
    /\ entry_len = 0
    /\ processed = <<>>
    /\ listed = FALSE
    /\ missing = "none"
    /\ raced = FALSE
    /\ probe = NoCall

DirectSpec == DirectInit /\ [][DirectCall]_vars

\* Either kind of run: the workflow, or direct calls.
LibNext == Next \/ DirectCall

LibSpec == (Init \/ DirectInit) /\ [][LibNext]_vars

\* ------------------------------------------------------------ properties

\* The article the current collect_articles built from the k-th node it took.
BuiltFrom(k) == NewArticle(item_no, processed[k], site[processed[k]])

\* A date that is there and earlier than the limit.
Earlier(date, limit) == date # NoDate /\ DateLess(date, limit)

\* The k-th node taken gave an article dated before limit_date.
IsCutoff(k) ==
    BuiltFrom(k).raised = "none" /\ Earlier(BuiltFrom(k).art.date, limit_date)

\* The same calendar day.
SameDay(a, b) == a[1] = b[1] /\ a[2] = b[2] /\ a[3] = b[3]

\* The articles the current collect_articles appended.
OwnArticles == SubSeq(articles, entry_len + 1, Len(articles))

\* Every node of s has a date that parses, and the dates do not increase.
Descending(s) ==
    /\ \A i \in 1..Len(s) : ~ParseDate(s[i].date).raised /\ ParseDate(s[i].date).date # NoDate
    /\ \A i \in 1..(Len(s) - 1) :
         ~DateLess(ParseDate(s[i].date).date, ParseDate(s[i + 1].date).date)

\* The position in s of the first node dated before limit, Len(s) + 1 if none is.
FirstBefore(s, limit) ==
    CHOOSE k \in 1..(Len(s) + 1) :
        /\ k = Len(s) + 1 \/ Earlier(ParseDate(s[k].date).date, limit)
        /\ \A j \in 1..(k - 1) : ~Earlier(ParseDate(s[j].date).date, limit)

IsInWindowPrefix ==
    LET n == FirstBefore(site, limit_date) - 1
    IN  /\ Len(articles) = n
        /\ \A i \in 1..n : articles[i] = NewArticle(item_no, i, site[i]).art

\* C2: a collect_articles that started with no articles and found the search
\* and sort elements, on a date-descending result sequence whose pages all
\* arrived before the list was read again, ends with exactly the nodes before
\* the first one dated before limit_date, in order.
C2_FinalListIsInWindowPrefix ==
    ( /\ cpc \in {"done", "raised"}
      /\ missing = "none"
      /\ entry_len = 0
      /\ ~raced
      /\ Descending(site) )
    => IsInWindowPrefix

\* C2 where collect_articles returns: the same, of the runs no exception ends.
C2_ReturnedListIsInWindowPrefix ==
    (cpc = "done" /\ entry_len = 0 /\ ~raced /\ Descending(site)) => IsInWindowPrefix

\* C3: no result node is in the articles list twice, and none is taken twice.
C3_NoNodeCollectedTwice ==
    /\ \A i, j \in 1..Len(articles) : i # j => articles[i].node # articles[j].node
    /\ \A i, j \in 1..Len(processed) : i # j => processed[i] # processed[j]

\* C3's case: two nodes of one search collected from two pages, the second
\* after a load-more and a re-read.
C3_Witness ==
    /\ cpc = "done"
    /\ page = 1
    /\ Len(OwnArticles) = 2
    /\ OwnArticles[1].node # OwnArticles[2].node

\* C4: the entries a re-read cuts off are as many as the current
\* collect_articles has collected.
C4_SkipsOwnCollectedOnly ==
    [][(cpc = "reread" /\ cpc' = "loop") =>
           elems'.items = SliceFrom(FindAll(visible).items, Len(OwnArticles))]_vars

\* C5: closing the ad raises nothing.
C5_AdDismissalRaisesNothing == exc_at # "ad_close"

\* C6: every execution of the workflow reaches its end, and ends with
\* driver_quit: a session that was started is eventually quit, at the end no
\* session is left running, a session is quit only as the last step (no
\* browser operation follows), and the quit raises nothing (with no session
\* it does nothing).
C6_AlwaysEndsWithQuit ==
    /\ <>(wf = "end")
    /\ (driver = "running") ~> (driver = "quit")
    /\ [](wf = "end" => driver \in {"none", "quit"})
    /\ [](driver = "quit" => wf = "end" /\ ~ENABLED WorkflowStep)
    /\ [](exc_at # "driver_quit")

\* C6's case: an exception left the try body and the session was quit all the same.
C6_Witness == wf = "end" /\ driver = "quit" /\ exc # "none"

\* C7: create_report does not fail on any articles list, and the csv and the
\* xlsx hold the articles' rows, one each, in order.
C7_ReportHasOneRowPerArticle ==
    /\ ~(exc_at = "create_report" /\ exc = "KeyError")
    /\ report.written =>
           /\ report.csv = report.xlsx
           /\ Len(report.csv) = Len(articles)
           /\ \A i \in 1..Len(articles) : report.csv[i] = Row(articles[i])

\* C8: building an Article never raises on the date text.
C8_DateParsingNeverRaises == ~(exc_at = "article" /\ exc = "ValueError")

\* C9: an article dated on limit_date's calendar day is appended.
C9_LimitDayArticleIsAppended ==
    cpc # "idle" =>
        \A k \in 1..Len(processed) :
            ( /\ BuiltFrom(k).raised = "none"
              /\ BuiltFrom(k).art.date # NoDate
              /\ SameDay(BuiltFrom(k).art.date, limit_date) )
            => \E i \in 1..Len(OwnArticles) : OwnArticles[i].node = BuiltFrom(k).art.node

\* C10: a search trigger, search input or sort option that is not found makes
\* collect_articles raise before it reads the result list, with the articles
\* as they were, and the workflow writes no report and no archive.
C10_RequiredStepFailureIsFatal ==
    missing # "none" =>
        /\ cpc = "raised"
        /\ exc = "AttributeError"
        /\ exc_at = missing
        /\ wf \in {"finally", "end"}
        /\ ~listed
        /\ processed = <<>>
        /\ Len(articles) = entry_len
        /\ ~report.written
        /\ ~archived

\* C10's case: the sort option was missing for a later work item, and the run
\* ended with the earlier articles and no report.
C10_Witness ==
    /\ wf = "end"
    /\ missing = "sort_option"
    /\ entry_len > 0

\* C11: a configuration error is raised before anything is done.  set_webdriver
\* raises NotImplementedError exactly for a name that is not chrome in any
\* case, launches nothing and leaves the session field as it was (None on a
\* new scraper); sort_by raises ValueError exactly for a key other than "date"
\* and "relevance", having looked up and clicked nothing; _get_web_element
\* raises ValueError exactly for an unsupported locator type or wait
\* condition, having queried nothing, and never returns None for one.
C11_ConfigurationErrorsComeFirst ==
    /\ probe.op = "set_webdriver" =>
         LET unsupported == LowerText(probe.in.browser) # <<"c", "h", "r", "o", "m", "e">>
         IN  /\ unsupported <=> probe.out.raised = "NotImplementedError"
             /\ unsupported => /\ probe.out.launches = 0
                               /\ probe.out.driver = probe.in.driver
                               /\ driver = probe.in.driver
    /\ probe.op = "sort_by" =>
         LET unsupported == probe.in.by \notin {"date", "relevance"}
         IN  /\ unsupported <=> probe.out.raised = "ValueError"
             /\ unsupported => probe.out.lookups = 0 /\ probe.out.clicks = 0
    /\ probe.op = "get_web_element" =>
         LET unsupported ==
                 \/ probe.in.locator_type \notin {"id", "xpath", "name", "class", "css"}
                 \/ probe.in.wait_condition \notin {"None", "presence", "clickable"}
         IN  /\ unsupported <=> probe.out.raised = "ValueError"
             /\ unsupported => probe.out.queries = 0 /\ ~probe.out.none

\* C11's case: a new scraper asked for a browser that is not chrome.
C11_Witness ==
    /\ probe.op = "set_webdriver"
    /\ probe.out.raised = "NotImplementedError"
    /\ driver = "none"

\* The places where phrase p stands in text t, whatever the case.
Occurrences(t, p) ==
    {i \in 1..(Len(t) - Len(p) + 1) :
        LowerText(SubSeq(t, i, i + Len(p) - 1)) = LowerText(p)}

\* How many there are in a title or description; none in one that is absent.
OccurrenceCount(field, p) ==
    IF field.found THEN Cardinality(Occurrences(field.text, p)) ELSE 0

\* C12: matches_count is the number of occurrences of the phrase in the title
\* plus the number in the description, whatever the case of the letters, an
\* absent field counting 0; it is never negative.
C12_CountsEveryOccurrence ==
    probe.op = "count_matches" =>
        /\ probe.out.count =
               OccurrenceCount(probe.in.title, probe.in.term)
               + OccurrenceCount(probe.in.description, probe.in.term)
        /\ probe.out.count >= 0

\* C12 for the phrases that cannot overlap themselves.
C12_CountsOccurrencesOfPlainPhrases ==
    (probe.op = "count_matches" /\ probe.in.term \in {<<"o", "i", "l">>, <<"O", "i", "L">>, <<>>}) =>
        probe.out.count =
            OccurrenceCount(probe.in.title, probe.in.term)
            + OccurrenceCount(probe.in.description, probe.in.term)

\* The texts tried that hold a currency-prefixed decimal number, a number
\* followed by "dollars" or a number followed by "USD", in any case.
SaysMoney == {LossesText, CostText, PaidText, LowerUsdText, UpperDollarsText}

\* C13: has_money is true exactly when the title or the description holds a
\* currency-prefixed decimal number, a number followed by "dollars" or a
\* number followed by "USD", in any case: true for "Losses of $1,200.50
\* reported", "Cost was 20 dollars", "Paid 15 USD", false for "Market fell
\* sharply" (and for "USD 15" and "dollars", which hold no number followed by
\* the word), false when both are absent.
C13_HasMoneyIffMoneyIsMentioned ==
    probe.op = "find_money_mentions" =>
        ( probe.out.has_money <=>
            \/ probe.in.title.found /\ probe.in.title.text \in SaysMoney
            \/ probe.in.description.found /\ probe.in.description.text \in SaysMoney )

\* C13's case: no title, a description that names an amount in dollars.
C13_Witness ==
    /\ probe.op = "find_money_mentions"
    /\ ~probe.in.title.found
    /\ probe.in.description = Text(LossesText)
    /\ probe.out.has_money

\* The result nodes in the page that the current collect_articles has built
\* no Article from.
Unprocessed ==
    {k \in 1..visible : \A j \in 1..Len(processed) : processed[j] # k}

\* The last node taken gave an article dated before limit_date.
CutoffHit == processed # <<>> /\ IsCutoff(Len(processed))

\* The step by which collect_articles leaves its loop without an exception.
LoopEnds == cpc # "done" /\ cpc' = "done"

\* C14: collect_articles returns only when the first list read is empty, when
\* an article before limit_date was met, when the load-more control is not
\* found once the list is exhausted, or when the list read again holds nothing
\* beyond the first len(articles) entries; and never while the page holds
\* nodes it has not processed and no cutoff was hit.
C14_ReturnsOnlyWhenNothingIsLeft ==
    [][ LoopEnds =>
          /\ \/ cpc = "loop" /\ processed = <<>> /\ ~Truthy(elems)
             \/ CutoffHit'
             \/ cpc = "loadmore" /\ elems.items = <<>>
             \/ cpc = "loop" /\ processed # <<>> /\ elems.items = <<>>
          /\ CutoffHit' \/ Unprocessed' = {} ]_vars

\* C14 of the first work item when every list read again came after the page
\* asked for.
C14_FirstItemUnracedReturnsWhenNothingIsLeft ==
    [][ (LoopEnds /\ entry_len = 0 /\ ~raced) =>
          /\ \/ cpc = "loop" /\ processed = <<>> /\ ~Truthy(elems)
             \/ CutoffHit'
             \/ cpc = "loadmore" /\ elems.items = <<>>
             \/ cpc = "loop" /\ processed # <<>> /\ elems.items = <<>>
          /\ CutoffHit' \/ Unprocessed' = {} ]_vars

\* C14 of any work item when every list read again came after the page asked for.
C14_UnracedReturnsWhenNothingIsLeft ==
    [][ (LoopEnds /\ ~raced) => (CutoffHit' \/ Unprocessed' = {}) ]_vars

\* The four situations of C14 are the only ones collect_articles returns in.
C14_ReturnsInOneOfFourSituations ==
    [][ LoopEnds =>
          \/ cpc = "loop" /\ processed = <<>> /\ ~Truthy(elems)
          \/ CutoffHit'
          \/ cpc = "loadmore" /\ elems.items = <<>>
          \/ cpc = "loop" /\ processed # <<>> /\ elems.items = <<>> ]_vars

\* The k-th node taken gave an article with no date.
IsUndated(k) ==
    BuiltFrom(k).raised = "none" /\ BuiltFrom(k).art.date = NoDate

\* The article built from the last node taken, and whether it has no date.
LastBuilt   == BuiltFrom(Len(processed))
LastUndated == processed # <<>> /\ IsUndated(Len(processed))

\* The loop takes the node at the head of its list, which carries no date.
TakesUndated ==
    /\ cpc = "loop"
    /\ Truthy(elems)
    /\ processed' = Append(processed, Head(elems.items))
    /\ LastUndated'

\* C15: an article with no date never triggers the cutoff.  The step that
\* takes it appends it and goes on with the rest of the list (to load-more
\* when there is no rest); it stays in the list; and an article before
\* limit_date taken right after it ends the loop and is not appended.
C15_UndatedIsAppendedAndScanGoesOn ==
    /\ [][ TakesUndated =>
             /\ articles' = Append(articles, LastBuilt'.art)
             /\ elems'.items = Tail(elems.items)
             /\ cpc' = IF Tail(elems.items) = <<>> THEN "loadmore" ELSE "loop" ]_vars
    /\ [](cpc # "idle" =>
            \A k \in 1..Len(processed) :
                IsUndated(k) =>
                    /\ \E i \in 1..Len(OwnArticles) : OwnArticles[i].node = BuiltFrom(k).art.node
                    /\ (k < Len(processed) /\ IsCutoff(k + 1)) =>
                           /\ cpc = "done"
                           /\ Len(processed) = k + 1
                           /\ \A i \in 1..Len(articles) :
                                  articles[i].node # BuiltFrom(k + 1).art.node)

\* C15's case: an undated article was appended and the older one after it
\* ended the loop.
C15_Witness ==
    /\ cpc = "done"
    /\ Len(processed) = 2
    /\ IsUndated(1)
    /\ IsCutoff(2)
    /\ Len(OwnArticles) = 1

C17_EveryInvocationReachesDone ==
    /\ [](cpc # "raised")
    /\ (wf = "collect") ~> (cpc = "done")

\* C17: every collect_articles comes to an end, the site's results being
\* finitely many: it reaches Done, or an exception leaves it (a required
\* element that is not found, a close button that is not there, an article
\* that cannot be built), also when the button is always found and the site
\* never answers the click.  load_more_articles is entered only by the step
\* that appends the last article of the list in hand, and one try of it leads
\* to the list being read again or to Done, never to a second try.
C17_EveryInvocationEnds ==
    /\ (wf = "collect") ~> (cpc \in {"done", "raised"})
    /\ [](cpc = "raised" => exc # "none" /\ wf \in {"finally", "end"})
    /\ [][ (cpc # "loadmore" /\ cpc' = "loadmore") =>
             /\ cpc = "loop"
             /\ Len(articles') = Len(articles) + 1
             /\ elems'.items = <<>> ]_vars
    /\ [][ cpc = "loadmore" => cpc' \in {"reread", "done"} ]_vars

\* C17's case: the button was found and clicked, the site never answered, and
\* collect_articles reached Done all the same.
C17_Witness ==
    /\ cpc = "done"
    /\ pending
    /\ processed # <<>>

\* The results of the search that the site has not put in the page yet and
\* whose date is there and not before limit_date.
InWindowToDeliver ==
    {k \in (visible + 1)..Len(site) :
        /\ ~Parsed[site[k]].date.raised
        /\ Parsed[site[k]].date.date # NoDate
        /\ ~Earlier(Parsed[site[k]].date.date, limit_date)}

\* C18: the list read again after a load-more that returned True holds what
\* the site appends in answer to the click, whenever the site does so: in
\* every interleaving collect_articles does not reach Done, no cutoff met,
\* while the site has results in the window still to deliver.
C18_NotDoneWhileWindowToDeliver ==
    [][ (LoopEnds /\ ~CutoffHit') => InWindowToDeliver = {} ]_vars

\* C18 of the runs whose lists read again all came after the site's answer.
C18_UnracedDeliversTheWindow ==
    [][ (LoopEnds /\ ~CutoffHit' /\ ~raced) => InWindowToDeliver = {} ]_vars

====
